---- MODULE Spec2Model ----
(***************************************************************************)
(* A model of the DBIC BIDS heuristic of heudiconv                         *)
(* (src/heuristics/dbic_bids.py): the protocol-name parser, the fixup      *)
(* engine and the per-series classification loop with its run counter.     *)
(*                                                                         *)
(* Strings are sequences of symbols.  A symbol is either one character of  *)
(* the source's alphabet that the code looks at ("_", "-", "+", "=", "@",  *)
(* a digit) or a word: a maximal run of letters that the code only ever    *)
(* compares as a whole ("func", "bids", "run", ...).  No word of the       *)
(* universe below is a concatenation of other symbols, so equality of      *)
(* symbol sequences is equality of the strings they stand for.             *)
(***************************************************************************)
EXTENDS Integers, Sequences, FiniteSets, TLC

VARIABLES
    protocol_name,   \* the parser's argument (parser specification)
    regd,            \* outcome of parse_dbic_protocol_name(protocol_name)
    protocol_name2,  \* a second argument derived from the first
    regd2,           \* outcome of parse_dbic_protocol_name(protocol_name2)
    relation,        \* how protocol_name2 was derived: "tagged" or "reordered"
    seqinfo,         \* the caller's batch: a list object the engine writes into
    given,           \* the records of the batch as the caller built it
    call,            \* the entry point called last, with its arguments
    exc,             \* the exception that call raised, "none" when it returned
    returned,        \* the batch that call returned, <<>> when it raised
    pc,              \* where infotodict stands: "idle", "loop", "done", "raised"
    idx,             \* position in seqinfo of the series the loop takes next
    current_run,     \* infotodict's locals
    run_label,
    image_data_type,
    info,
    skipped,
    skipped_unknown,
    subjectid,       \* the argument of the fixup_subjectid call made last
    subject,         \* what that call returned
    fixups,          \* how many fixup_subjectid calls were made, each on the
                     \* result of the one before
    ids,             \* outcomes of the infotoids calls made on seqinfo, in order
    info1            \* what the first infotodict call returned, once a second
                     \* call on the same list has begun

parse_vars == <<protocol_name, regd, protocol_name2, regd2, relation>>

fix_vars == <<seqinfo, given, call, exc, returned>>

loop_vars == <<pc, idx, current_run, run_label, image_data_type, info,
               skipped, skipped_unknown>>

ident_vars == <<subjectid, subject, fixups, ids, info1>>

vars == <<protocol_name, regd, protocol_name2, regd2, relation,
          seqinfo, given, call, exc, returned,
          pc, idx, current_run, run_label, image_data_type, info,
          skipped, skipped_unknown, subjectid, subject, fixups, ids, info1>>

----------------------------------------------------------------------------
(* Bounds of the model.                                                    *)

\* the longest protocol name, in underscore-separated tokens, that Init draws
MaxTokens == 3

\* the longest batch handed to the fixup engine on its own
MaxFixSeries == 2

\* the longest batch handed to infotodict
MaxSeries == 4

\* the longest subject id, in symbols, handed to fixup_subjectid
MaxIdLen == 3

\* the longest batch handed to infotoids and infotodict together
MaxIdentSeries == 2

\* the longest batch of the run-token specification
MaxRunSeries == 3

\* the longest batch of the fieldmap specification
MaxFmapSeries == 3

\* the longest batch handed to fix_dbic_protocol and then to infotodict
MaxRefixSeries == 2

----------------------------------------------------------------------------
(* Strings.                                                                *)

Range(s) == { s[i] : i \in 1..Len(s) }

\* str.find: the first position of symbol c in s, 0 when there is none
Find(s, c) ==
    IF c \in Range(s)
    THEN CHOOSE i \in 1..Len(s) : s[i] = c /\ \A j \in 1..(i-1) : s[j] # c
    ELSE 0

\* the first position where the two-symbol string cc starts in s, 0 when none
Find2(s, c) ==
    LET hits == { i \in 1..(Len(s)-1) : s[i] = c /\ s[i+1] = c }
    IN  IF hits = {} THEN 0 ELSE CHOOSE i \in hits : \A j \in hits : i <= j

\* str.split(c): every piece between occurrences of c, empty pieces kept
RECURSIVE Split(_, _)
Split(s, c) ==
    LET p == Find(s, c)
    IN  IF p = 0 THEN <<s>>
        ELSE <<SubSeq(s, 1, p-1)>> \o Split(SubSeq(s, p+1, Len(s)), c)

\* c.join(pieces)
RECURSIVE Join(_, _)
Join(pieces, c) ==
    IF pieces = <<>> THEN <<>>
    ELSE IF Len(pieces) = 1 THEN pieces[1]
    ELSE pieces[1] \o <<c>> \o Join(Tail(pieces), c)

\* str.replace(a, b) for single symbols
Replace(s, a, b) == [i \in 1..Len(s) |-> IF s[i] = a THEN b ELSE s[i]]

\* the characters of s outside the set chars, in order
RECURSIVE Strip(_, _)
Strip(s, chars) ==
    IF s = <<>> THEN <<>>
    ELSE IF Head(s) \in chars THEN Strip(Tail(s), chars)
    ELSE <<Head(s)>> \o Strip(Tail(s), chars)

\* whether string sub occurs in s
Contains(s, sub) ==
    \E i \in 0..(Len(s) - Len(sub)) : SubSeq(s, i+1, i+Len(sub)) = sub

Digits == {"0", "1", "2", "3", "4", "5", "6", "7", "8", "9"}

\* str.isdigit: non-empty and every character a digit
IsDigit(s) == s # <<>> /\ \A i \in 1..Len(s) : s[i] \in Digits

----------------------------------------------------------------------------
(* Dictionaries: a dict is a function whose domain is its set of keys.     *)

EmptyDict == [k \in {} |-> <<>>]

Put(d, key, value) ==
    [k \in (DOMAIN d) \cup {key} |-> IF k = key THEN value ELSE d[k]]

Remove(d, key) == [k \in (DOMAIN d) \ {key} |-> d[k]]

\* no entry point called yet
NoCall == [op |-> "none"]

\* What a call produced: a value (exc = "none") or the exception it raised.
Returned(v) == [exc |-> "none", val |-> v]
Raised(e)   == [exc |-> e, val |-> EmptyDict]
Pending     == [exc |-> "pending", val |-> EmptyDict]

----------------------------------------------------------------------------
(* sanitize_str and parse_dbic_protocol_name.                              *)

\* the characters sanitize_str deletes
IllegalChars == {"#", "!", "@", "$", "%", "^", "&", ".", ",", ":", ";", "_", "-"}

sanitize_str(value) == Strip(value, IllegalChars)

\* the nested split2: (key, value) around the first hyphen; no hyphen, no value
split2(s) ==
    LET p == Find(s, "-")
    IN  IF p > 0
        THEN [key |-> SubSeq(s, 1, p-1), value |-> SubSeq(s, p+1, Len(s)),
              none |-> FALSE]
        ELSE [key |-> s, value |-> <<>>, none |-> TRUE]

\* a variant of SeqTypes that has lost one of the five
SeqTypesWithoutFunc == {<<"anat">>, <<"dwi">>, <<"behav">>, <<"fmap">>}

SeqTypes == {<<"anat">>, <<"func">>, <<"dwi">>, <<"behav">>, <<"fmap">>}

KnownKeys == {<<"ses">>, <<"run">>, <<"task">>, <<"acq">>}

\* {'ses': 'session'}.get(key, key), as the dict's field name
FieldOf(key) == IF key = <<"ses">> THEN "session" ELSE key[1]

\* protocol_name.split('__', 1)[0]
DropSuffix(name) ==
    LET p == Find2(name, "_")
    IN  IF p = 0 THEN name ELSE SubSeq(name, 1, p-1)

\* the 'scout' fixup of the first token
ScoutFixup(split) ==
    IF split[1] = <<"scout">>
    THEN [split EXCEPT ![1] = <<"anat", "-", "scout">>]
    ELSE split

\* prefix after "if prefix != 'bids' and '-' in prefix: prefix, _ = prefix.split('-', 1)"
PrefixOf(tok) ==
    IF tok # <<"bids">> /\ "-" \in Range(tok) THEN split2(tok).key ELSE tok

\* the tokens left once a 'bids' prefix is dropped
DropBids(split) ==
    IF PrefixOf(split[1]) = <<"bids">> THEN Tail(split) ELSE split

\* a variant of ParseToken that stops reading keys at the first leftover token
ParseTokenUntilLeftover(st, s) ==
    LET kv == split2(s)
    IN  IF st.exc # "none" THEN st
        ELSE IF kv.none /\ kv.key = <<>>
        THEN [st EXCEPT !.exc = "IndexError"]
        ELSE
        LET sigil == kv.none /\ kv.key[Len(kv.key)] \in {"+", "="}
            key   == IF sigil THEN SubSeq(kv.key, 1, Len(kv.key) - 1) ELSE kv.key
            value == IF sigil THEN <<kv.key[Len(kv.key)]>>
                     ELSE IF kv.none THEN <<"None">>
                     ELSE kv.value
            clean == Replace(Replace(value, "_", "X"), "-", "X")
        IN  IF key \in KnownKeys /\ st.bids_leftovers = <<>>
            THEN [st EXCEPT !.regd = Put(st.regd, FieldOf(key), sanitize_str(clean))]
            ELSE [st EXCEPT !.bids_leftovers = Append(st.bids_leftovers, s)]

\* One pass of "for s in split[1:]": st is [exc, regd, bids_leftovers].
ParseToken(st, s) ==
    LET kv == split2(s)
    IN  IF st.exc # "none" THEN st
        ELSE IF kv.none /\ kv.key = <<>>
        THEN [st EXCEPT !.exc = "IndexError"]          \* key[-1] of ''
        ELSE
        LET sigil == kv.none /\ kv.key[Len(kv.key)] \in {"+", "="}
            key   == IF sigil THEN SubSeq(kv.key, 1, Len(kv.key) - 1) ELSE kv.key
            value == IF sigil THEN <<kv.key[Len(kv.key)]>>
                     ELSE IF kv.none THEN <<"None">>   \* str(None)
                     ELSE kv.value
            clean == Replace(Replace(value, "_", "X"), "-", "X")
        IN  IF key \in KnownKeys
            THEN [st EXCEPT !.regd = Put(st.regd, FieldOf(key), sanitize_str(clean))]
            ELSE [st EXCEPT !.bids_leftovers = Append(st.bids_leftovers, s)]

RECURSIVE ParseTokens(_, _)
ParseTokens(st, toks) ==
    IF toks = <<>> THEN st
    ELSE ParseTokens(ParseToken(st, Head(toks)), Tail(toks))

parse_dbic_protocol_name(name) ==
    LET split == DropBids(ScoutFixup(Split(DropSuffix(name), "_")))
    IN  IF split = <<>> THEN Raised("IndexError")      \* split[0] of []
        ELSE
        LET first == split2(split[1])
        IN  IF first.key \notin SeqTypes THEN Returned(EmptyDict)
            ELSE
            LET regd0 == IF first.value # <<>>
                         THEN [seqtype |-> first.key, seqtype_label |-> first.value]
                         ELSE [seqtype |-> first.key]
                st == ParseTokens([exc |-> "none", regd |-> regd0,
                                   bids_leftovers |-> <<>>], Tail(split))
            IN  IF st.exc # "none" THEN Raised(st.exc)
                ELSE IF st.bids_leftovers # <<>>
                THEN Returned(Put(st.regd, "bids", Join(st.bids_leftovers, "_")))
                ELSE Returned(st.regd)

----------------------------------------------------------------------------
(* Regular expressions.  Every pattern of the tables is a fixed-length     *)
(* sequence of one-character matchers: a literal, an escaped literal, the  *)
(* class [0-9], or the wildcard ".".  A leading "^" anchors at the start.  *)

Matches(ptok, sym) ==
    CASE ptok = "."      -> TRUE
      [] ptok = "[0-9]"  -> sym \in Digits
      [] ptok = "\\+"    -> sym = "+"
      [] OTHER           -> sym = ptok

\* whether pattern pat matches s at its first character
MatchesAt(pat, s) ==
    /\ Len(s) >= Len(pat)
    /\ \A i \in 1..Len(pat) : Matches(pat[i], s[i])

\* a variant of re_match that tries the first alternative only
re_match_first(patterns, s) ==
    \/ patterns = <<>>
    \/ MatchesAt(IF Head(patterns[1]) = "^" THEN Tail(patterns[1])
                 ELSE patterns[1], s)

\* re.match('|'.join(patterns), s): some alternative matches at the start of
\* s (the empty list joins to the empty pattern, which matches every string)
re_match(patterns, s) ==
    \/ patterns = <<>>
    \/ \E i \in 1..Len(patterns) :
          MatchesAt(IF Head(patterns[i]) = "^" THEN Tail(patterns[i])
                    ELSE patterns[i], s)

\* re.sub(pat, repl, s): every non-overlapping match, leftmost first, replaced
RECURSIVE re_sub(_, _, _)
re_sub(pat, repl, s) ==
    IF s = <<>> THEN <<>>
    ELSE IF MatchesAt(pat, s)
    THEN repl \o re_sub(pat, repl, SubSeq(s, Len(pat) + 1, Len(s)))
    ELSE <<Head(s)>> \o re_sub(pat, repl, Tail(s))

----------------------------------------------------------------------------
(* The correction tables and md5sum.                                       *)

\* accession number -> patterns of the series ids to mark as canceled
fix_accession2run ==
    [a \in {"A000005", "A000035", "A000067", "A000072", "A000081", "A000082",
            "A000088", "A000090"} |->
        CASE a = "A000005" -> << <<"^", "1", "-">> >>
          [] a = "A000035" -> << <<"^", "8", "-">>, <<"^", "9", "-">> >>
          [] a = "A000067" -> << <<"^", "9", "-">> >>
          [] a = "A000072" -> << <<"^", "5", "-">> >>
          [] a = "A000081" -> << <<"^", "5", "-">> >>
          [] a = "A000082" -> << <<"^", "5", "-">> >>
          [] a = "A000088" -> << <<"^", "9", "-">> >>
          [] a = "A000090" -> << <<"^", "5", "-">> >>]

\* the table test_fix_canceled_runs passes
fake_accession2run ==
    [a \in {"accession1"} |-> << <<"^", "0", "1", "-">>, <<"^", "0", "3", "-">> >>]

LegacyHash == "9d148e2a05f782273f6343507733309d"

\* md5 of study_description -> list of (pattern, substitution)
protocols2fix ==
    [h \in {LegacyHash, "76b36c80231b0afaf509e2d52046e964",
            "c6d8fbccc72990bee61d28e73b2618a4"} |->
        CASE h = LegacyHash ->
        <<
          <<<<"anat", "_">>,
            <<"anat", "-">>>>,
          <<<<"run", "-", "life", "[0-9]">>,
            <<"run", "+", "_", "task", "-", "life">>>>,
          <<<<"scout", "_", "run", "\\+">>,
            <<"scout">>>>,
          <<<<"T", "2", "w">>,
            <<"T", "2", "w", "_", "run", "+">>>>,
          <<<<"AAHead", "_", "Scout", "_", "3", "2", "ch", "-", "head", "-", "coil">>,
            <<"anat", "-", "scout">>>>,
          <<<<"MPRAGE">>,
            <<"anat", "-", "T", "1", "w", "_", "acq", "-", "MPRAGE", "_", "run", "+">>>>,
          <<<<"gre", "_", "field", "_", "mapping", "_", "2", "mm">>,
            <<"fmap", "_", "run", "+", "_", "acq", "-", "2", "mm">>>>,
          <<<<"gre", "_", "field", "_", "mapping", "_", "3", "mm">>,
            <<"fmap", "_", "run", "+", "_", "acq", "-", "3", "mm">>>>,
          <<<<"epi", "_", "bold", "_", "sms", "_", "p", "2", "_", "s", "4", "_", "2", "mm", "_", "life", "1", "_", "7", "4", "8">>,
            <<"func", "_", "run", "+", "_", "task", "-", "life", "_", "acq", "-", "2", "mm", "7", "4", "8">>>>,
          <<<<"epi", "_", "bold", "_", "sms", "_", "p", "2", "_", "s", "4", "_", "2", "mm", "_", "life", "2", "_", "6", "9", "2">>,
            <<"func", "_", "run", "+", "_", "task", "-", "life", "_", "acq", "-", "2", "mm", "6", "9", "2">>>>,
          <<<<"epi", "_", "bold", "_", "sms", "_", "p", "2", "_", "s", "4", "_", "2", "mm", "_", "life", "3", "_", "7", "5", "4">>,
            <<"func", "_", "run", "+", "_", "task", "-", "life", "_", "acq", "-", "2", "mm", "7", "5", "4">>>>,
          <<<<"epi", "_", "bold", "_", "sms", "_", "p", "2", "_", "s", "4", "_", "2", "mm", "_", "life", "4", "_", "8", "2", "4">>,
            <<"func", "_", "run", "+", "_", "task", "-", "life", "_", "acq", "-", "2", "mm", "8", "2", "4">>>>,
          <<<<"epi", "_", "bold", "_", "p", "2", "_", "3", "mm", "_", "nofs", "_", "life", "1", "_", "3", "7", "4">>,
            <<"func", "_", "run", "+", "_", "task", "-", "life", "_", "acq", "-", "3", "mm", "nofs", "3", "7", "4">>>>,
          <<<<"epi", "_", "bold", "_", "p", "2", "_", "3", "mm", "_", "nofs", "_", "life", "2", "_", "3", "4", "6">>,
            <<"func", "_", "run", "+", "_", "task", "-", "life", "_", "acq", "-", "3", "mm", "nofs", "3", "4", "6">>>>,
          <<<<"epi", "_", "bold", "_", "p", "2", "_", "3", "mm", "_", "nofs", "_", "life", "3", "_", "3", "7", "7">>,
            <<"func", "_", "run", "+", "_", "task", "-", "life", "_", "acq", "-", "3", "mm", "nofs", "3", "7", "7">>>>,
          <<<<"epi", "_", "bold", "_", "p", "2", "_", "3", "mm", "_", "nofs", "_", "life", "4", "_", "4", "1", "2">>,
            <<"func", "_", "run", "+", "_", "task", "-", "life", "_", "acq", "-", "3", "mm", "nofs", "4", "1", "2">>>>,
          <<<<"t", "2", "_", "space", "_", "sag", "_", "p", "4", "_", "iso">>,
            <<"anat", "-", "T", "2", "w", "_", "run", "+">>>>,
          <<<<"gre", "_", "field", "_", "mapping", "_", "2", ".", "4", "mm">>,
            <<"fmap", "_", "run", "+", "_", "acq", "-", "2", ".", "4", "mm">>>>,
          <<<<"rest", "_", "p", "2", "_", "sms", "4", "_", "2", ".", "4", "mm", "_", "6", "4", "sl", "_", "1", "0", "0", "0", "tr", "_", "3", "2", "te", "_", "6", "0", "0", "dyn">>,
            <<"func", "_", "run", "+", "_", "task", "-", "rest", "_", "acq", "-", "2", ".", "4", "mm", "6", "4", "sl", "1", "0", "0", "0", "tr", "3", "2", "te", "6", "0", "0", "dyn">>>>,
          <<<<"DTI", "_", "3", "0">>,
            <<"dwi", "_", "run", "+", "_", "acq", "-", "3", "0">>>>,
          <<<<"t", "1", "_", "space", "_", "sag", "_", "p", "2", "_", "iso">>,
            <<"anat", "-", "T", "1", "w", "_", "acq", "-", "0", "6", "0", "mm", "_", "run", "+">>>>
        >>
          [] h = "76b36c80231b0afaf509e2d52046e964" ->
        <<
          <<<<"fmap", "_", "run", "\\+", "_", "2", "mm">>,
            <<"fmap", "_", "run", "+", "_", "acq", "-", "2", "mm">>>>
        >>
          [] h = "c6d8fbccc72990bee61d28e73b2618a4" ->
        <<
          <<<<"run", "=">>,
            <<"run", "+">>>>
        >>]

\* the table test_fix_dbic_protocol passes, keyed by md5sum('mystudy')
test_subsdict ==
    [h \in {"0e4497bdaae2608324a85be1f54f60ed"} |->
        << << <<"scout", "_", "run", "\\+">>, <<"scout">> >>,
           << <<"run", "-", "life", "[0-9]">>,
              <<"run", "+", "_", "task", "-", "life">> >> >>]

keys2replace == <<"protocol_name", "series_description">>

\* the study descriptions of the universe
LegacyStudy == <<"Haxby", "-", "Sam", "^", "life">>
RunEqStudy  == <<"Gobbini", "_", "Ida", "^", "faces">>
MyStudy     == <<"mystudy">>
OtherStudy  == <<"Halchenko", "-", "Yarik", "^", "test">>

\* md5sum on the universe's study descriptions: an injective table.  The
\* descriptions standing for the two hard-coded hashes are stand-ins for
\* whichever real descriptions hash to them.
md5sum(string) ==
    CASE string = LegacyStudy -> LegacyHash
      [] string = RunEqStudy  -> "c6d8fbccc72990bee61d28e73b2618a4"
      [] string = MyStudy     -> "0e4497bdaae2608324a85be1f54f60ed"
      [] string = OtherStudy  -> "5f3c8ce2e8d1dd1a3c3a1d4e0a6f9b77"
      [] OTHER                -> "00000000000000000000000000000000"

----------------------------------------------------------------------------
(* get_unique and the fixup engine.  An engine call gives [exc, seqinfo]:  *)
(* the exception it raised ("none" when it returned) and the contents of   *)
(* the list it was handed, which it rewrites in place and returns.         *)

\* the set get_unique builds
AttrValues(seqinfos, attr) == { seqinfos[i][attr] : i \in 1..Len(seqinfos) }

\* whether get_unique's assertion holds
IsUnique(seqinfos, attr) == Cardinality(AttrValues(seqinfos, attr)) = 1

get_unique(seqinfos, attr) == CHOOSE v \in AttrValues(seqinfos, attr) : TRUE

\* s._replace(**fixedkwargs) of the canceled-run loop
MarkCanceled(s) ==
    [s EXCEPT !.protocol_name = <<"cancelme", "_">> \o s.protocol_name,
              !.series_description = <<"cancelme", "_">> \o s.series_description]

fix_canceled_runs(seqinfo_, accession2run) ==
    IF ~IsUnique(seqinfo_, "accession_number")
    THEN [exc |-> "AssertionError", seqinfo |-> seqinfo_]
    ELSE
    LET accession_number == get_unique(seqinfo_, "accession_number")
    IN  IF accession_number \in DOMAIN accession2run
        THEN [exc |-> "none",
              seqinfo |-> [i \in 1..Len(seqinfo_) |->
                  IF re_match(accession2run[accession_number],
                              seqinfo_[i].series_id)
                  THEN MarkCanceled(seqinfo_[i])
                  ELSE seqinfo_[i]]]
        ELSE [exc |-> "none", seqinfo |-> seqinfo_]

\* a variant of ApplySubstitutions that applies every pair to the original
\* value and keeps the last result
ApplyEachToOriginal(value, substitutions) ==
    IF substitutions = <<>> THEN value
    ELSE re_sub(substitutions[Len(substitutions)][1],
                substitutions[Len(substitutions)][2], value)

\* "for substring, replacement in substitutions: value = re.sub(...)"
RECURSIVE ApplySubstitutions(_, _)
ApplySubstitutions(value, substitutions) ==
    IF substitutions = <<>> THEN value
    ELSE ApplySubstitutions(
             re_sub(Head(substitutions)[1], Head(substitutions)[2], value),
             Tail(substitutions))

\* s._replace(**fixed_kwargs) of the substitution loop
RECURSIVE FixKeys(_, _, _)
FixKeys(s, keys, substitutions) ==
    IF keys = <<>> THEN s
    ELSE FixKeys([s EXCEPT ![Head(keys)] =
                       ApplySubstitutions(s[Head(keys)], substitutions)],
                 Tail(keys), substitutions)

\* whether fix_dbic_protocol refuses the study
UnknownStudy(study_descr_hash, subsdict) == study_descr_hash \notin DOMAIN subsdict

\* a variant of fix_dbic_protocol that passes an unknown study through
fix_dbic_protocol_lenient(seqinfo_, keys, subsdict) ==
    LET marked == fix_canceled_runs(seqinfo_, fix_accession2run)
    IN  IF marked.exc # "none" THEN marked
        ELSE IF ~IsUnique(marked.seqinfo, "study_description")
        THEN [exc |-> "AssertionError", seqinfo |-> marked.seqinfo]
        ELSE
        LET study_descr_hash ==
                md5sum(get_unique(marked.seqinfo, "study_description"))
        IN  IF UnknownStudy(study_descr_hash, subsdict)
            THEN [exc |-> "none", seqinfo |-> marked.seqinfo]
            ELSE [exc |-> "none",
                  seqinfo |-> [i \in 1..Len(marked.seqinfo) |->
                      FixKeys(marked.seqinfo[i], keys, subsdict[study_descr_hash])]]

fix_dbic_protocol(seqinfo_, keys, subsdict) ==
    LET marked == fix_canceled_runs(seqinfo_, fix_accession2run)
    IN  IF marked.exc # "none" THEN marked
        ELSE IF ~IsUnique(marked.seqinfo, "study_description")
        THEN [exc |-> "AssertionError", seqinfo |-> marked.seqinfo]
        ELSE
        LET study_descr_hash ==
                md5sum(get_unique(marked.seqinfo, "study_description"))
        IN  IF UnknownStudy(study_descr_hash, subsdict)
            THEN [exc |-> "ValueError", seqinfo |-> marked.seqinfo]
            ELSE [exc |-> "none",
                  seqinfo |-> [i \in 1..Len(marked.seqinfo) |->
                      FixKeys(marked.seqinfo[i], keys, subsdict[study_descr_hash])]]

----------------------------------------------------------------------------
(* infotodict: create_key, the run counter and the per-series loop.        *)

DigitSeq == <<"0", "1", "2", "3", "4", "5", "6", "7", "8", "9">>

\* int(run) of a digit string
RECURSIVE ToInt(_)
ToInt(digits) ==
    IF digits = <<>> THEN 0
    ELSE 10 * ToInt(SubSeq(digits, 1, Len(digits) - 1))
         + (CHOOSE d \in 0..9 : DigitSeq[d + 1] = digits[Len(digits)])

\* "%d" % n
RECURSIVE Decimal(_)
Decimal(n) ==
    IF n < 10 THEN <<DigitSeq[n + 1]>>
    ELSE Append(Decimal(n \div 10), DigitSeq[(n % 10) + 1])

\* "%02d" % n
Fmt02(n) == IF n < 10 THEN <<"0">> \o Decimal(n) ELSE Decimal(n)

\* "run-" + ("%02d" % current_run), current_run being an int
RunLabel(current_run_) == <<"run", "-">> \o Fmt02(current_run_)

\* the (template, outtype, annotation_classes) key of create_key with the
\* default outtype, no annotation classes and the empty prefix
create_key(subdir, file_suffix) ==
    << <<"{bids_subject_session_dir}", "/">> \o subdir
          \o <<"/", "{bids_subject_session_prefix}", "_">> \o file_suffix,
       <<"nii.gz", "dicom">>,
       "None" >>

\* a variant of AppendTo that starts the list of the key anew
AppendToOverwrites(info_, template, series_id) == Put(info_, template, <<series_id>>)

\* info[template].append(series_id) on a defaultdict(list)
AppendTo(info_, template, series_id) ==
    IF template \in DOMAIN info_
    THEN [info_ EXCEPT ![template] = Append(@, series_id)]
    ELSE Put(info_, template, <<series_id>>)

\* "if protocol_name_tuned in {'AAHead_Scout'}: protocol_name_tuned = 'anat-scout'"
TuneProtocolName(name) ==
    IF name = <<"AAHead", "_", "Scout">> THEN <<"anat", "-", "scout">> ELSE name

IsMIP(image_type) == image_type # <<>> /\ Head(image_type) = "MIP"

\* regd after "if image_data_type.startswith('MIP'): regd['acq'] = ..."
WithMIP(regd_, image_type) ==
    IF IsMIP(image_type)
    THEN Put(regd_, "acq",
             (IF "acq" \in DOMAIN regd_ THEN regd_["acq"] ELSE <<>>)
             \o sanitize_str(image_type))
    ELSE regd_

\* a variant of IncrementRun that forgets the increment
IncrementRunForgotten(current_run_) == current_run_

\* "current_run += 1" of a '+' on a series that is no phase image
IncrementRun(current_run_) == current_run_ + 1

\* a variant of RunTransition without the exception for the legacy study
RunTransitionNoLegacy(run, current_run_, image_type, prev_image_type, study) ==
    IF run = <<"+">>
    THEN IF image_type = <<"P">>
         THEN IF prev_image_type # <<"M">>
              THEN [exc |-> "RuntimeError", current_run |-> current_run_]
              ELSE [exc |-> "none", current_run |-> current_run_]
         ELSE [exc |-> "none", current_run |-> IncrementRun(current_run_)]
    ELSE IF run = <<"=">>
    THEN [exc |-> "none",
          current_run |-> IF current_run_ = 0 THEN 1 ELSE current_run_]
    ELSE IF IsDigit(run)
    THEN [exc |-> "none", current_run |-> ToInt(run)]
    ELSE [exc |-> "ValueError", current_run |-> current_run_]

\* a variant of RunTransition that keeps the run on a token it does not know
RunTransitionLenient(run, current_run_, image_type, prev_image_type, study) ==
    IF run = <<"+">>
    THEN IF image_type = <<"P">>
         THEN IF prev_image_type # <<"M">>
              THEN IF md5sum(study) = LegacyHash
                   THEN [exc |-> "none", current_run |-> current_run_ + 1]
                   ELSE [exc |-> "RuntimeError", current_run |-> current_run_]
              ELSE [exc |-> "none", current_run |-> current_run_]
         ELSE [exc |-> "none", current_run |-> IncrementRun(current_run_)]
    ELSE IF run = <<"=">>
    THEN [exc |-> "none",
          current_run |-> IF current_run_ = 0 THEN 1 ELSE current_run_]
    ELSE IF IsDigit(run)
    THEN [exc |-> "none", current_run |-> ToInt(run)]
    ELSE [exc |-> "none", current_run |-> current_run_]

\* a variant of RunTransition that increments the run on every '+'
RunTransitionEveryPlus(run, current_run_, image_type, prev_image_type, study) ==
    IF run = <<"+">>
    THEN IF image_type = <<"P">> /\ prev_image_type # <<"M">>
              /\ md5sum(study) # LegacyHash
         THEN [exc |-> "RuntimeError", current_run |-> current_run_]
         ELSE [exc |-> "none", current_run |-> current_run_ + 1]
    ELSE IF run = <<"=">>
    THEN [exc |-> "none",
          current_run |-> IF current_run_ = 0 THEN 1 ELSE current_run_]
    ELSE IF IsDigit(run)
    THEN [exc |-> "none", current_run |-> ToInt(run)]
    ELSE [exc |-> "ValueError", current_run |-> current_run_]

\* a variant of RunTransition that refuses an explicit run lower than the
\* run tracked so far
RunTransitionKeepHigher(run, current_run_, image_type, prev_image_type, study) ==
    IF run = <<"+">>
    THEN IF image_type = <<"P">>
         THEN IF prev_image_type # <<"M">>
              THEN IF md5sum(study) = LegacyHash
                   THEN [exc |-> "none", current_run |-> current_run_ + 1]
                   ELSE [exc |-> "RuntimeError", current_run |-> current_run_]
              ELSE [exc |-> "none", current_run |-> current_run_]
         ELSE [exc |-> "none", current_run |-> IncrementRun(current_run_)]
    ELSE IF run = <<"=">>
    THEN [exc |-> "none",
          current_run |-> IF current_run_ = 0 THEN 1 ELSE current_run_]
    ELSE IF IsDigit(run)
    THEN [exc |-> "none",
          current_run |-> IF ToInt(run) < current_run_ THEN current_run_
                          ELSE ToInt(run)]
    ELSE [exc |-> "ValueError", current_run |-> current_run_]

\* The run counter on a run token: [exc, current_run].
RunTransition(run, current_run_, image_type, prev_image_type, study) ==
    IF run = <<"+">>
    THEN IF image_type = <<"P">>
         THEN IF prev_image_type # <<"M">>
              THEN IF md5sum(study) = LegacyHash
                   THEN [exc |-> "none", current_run |-> current_run_ + 1]
                   ELSE [exc |-> "RuntimeError", current_run |-> current_run_]
              ELSE [exc |-> "none", current_run |-> current_run_]
         ELSE [exc |-> "none", current_run |-> IncrementRun(current_run_)]
    ELSE IF run = <<"=">>
    THEN [exc |-> "none",
          current_run |-> IF current_run_ = 0 THEN 1 ELSE current_run_]
    ELSE IF IsDigit(run)
    THEN [exc |-> "none", current_run |-> ToInt(run)]
    ELSE [exc |-> "ValueError", current_run |-> current_run_]

\* a variant of RunAbsent that forgets the run held so far
RunAbsentResets(current_run_) == [exc |-> "none", current_run |-> 0]

\* The run counter on a series without a run token ("else: run_label =
\* None"): current_run stays as it is.
RunAbsent(current_run_) == [exc |-> "none", current_run |-> current_run_]

\* the default seqtype_label: [exc, label] (label <<>> for None)
DefaultLabel(seqtype, seqtype_label, name, image_type) ==
    IF seqtype = <<"func">> /\ seqtype_label = <<>>
    THEN [exc |-> "none",
          label |-> IF Contains(name, <<"_", "pace", "_">>)
                    THEN <<"pace">> ELSE <<"bold">>]
    ELSE IF seqtype = <<"fmap">> /\ seqtype_label = <<>>
    THEN IF image_type = <<"M">> THEN [exc |-> "none", label |-> <<"magnitude">>]
         ELSE IF image_type = <<"P">>
         THEN [exc |-> "none", label |-> <<"phasediff">>]
         ELSE [exc |-> "KeyError", label |-> <<>>]
    ELSE IF seqtype = <<"dwi">> /\ seqtype_label = <<>>
    THEN [exc |-> "none", label |-> <<"dwi">>]
    ELSE [exc |-> "none", label |-> seqtype_label]

Field(regd_, key) == IF key \in DOMAIN regd_ THEN regd_[key] ELSE <<>>

\* '_'.join(filter(bool, suffix_parts))
Suffix(regd_, run_label_, seqtype_label) ==
    LET parts == <<
            IF Field(regd_, "task") = <<>> THEN <<>>
            ELSE <<"task", "-">> \o regd_["task"],
            IF Field(regd_, "acq") = <<>> THEN <<>>
            ELSE <<"acq", "-">> \o regd_["acq"],
            Field(regd_, "bids"),
            run_label_,
            seqtype_label >>
    IN  Join(SelectSeq(parts, LAMBDA x : x # <<>>), "_")

\* a variant of SkipDerived that lets derived series through
SkipDerivedNever(s) == FALSE

\* whether a series is recorded as skipped for being derived
SkipDerived(s) == s.is_derived

\* whether a parse result sends the series to skipped_unknown ("if not regd")
NotRecognized(regd_) == regd_ = EmptyDict

\* The locals of infotodict; run_label <<>> stands for None.
Locals ==
    [current_run |-> current_run, run_label |-> run_label,
     image_data_type |-> image_data_type, info |-> info,
     skipped |-> skipped, skipped_unknown |-> skipped_unknown, exc |-> "none"]

\* The loop body once the name is parsed: loc1 holds the locals with the
\* image type of s, parsed is the parser's outcome for the tuned name.
PlaceSeries(s, loc1, prev_image_data_type, protocol_name_tuned, parsed) ==
    IF parsed.exc # "none" THEN [loc1 EXCEPT !.exc = parsed.exc]
    ELSE
    LET regd1 == WithMIP(parsed.val, s.image_type)
    IN  IF NotRecognized(regd1)
        THEN [loc1 EXCEPT !.skipped_unknown = Append(@, s.series_id)]
        ELSE IF "seqtype" \notin DOMAIN regd1
        THEN [loc1 EXCEPT !.exc = "KeyError"]        \* regd.pop('seqtype')
        ELSE
        LET seqtype == regd1["seqtype"]
            lab == DefaultLabel(seqtype, Field(regd1, "seqtype_label"),
                                protocol_name_tuned, s.image_type)
            regd_ == Remove(Remove(regd1, "seqtype"), "seqtype_label")
        IN  IF lab.exc # "none" THEN [loc1 EXCEPT !.exc = lab.exc]
            ELSE
            LET tr == IF "run" \in DOMAIN regd_
                      THEN RunTransition(regd_["run"], loc1.current_run,
                                         s.image_type, prev_image_data_type,
                                         s.study_description)
                      ELSE RunAbsent(loc1.current_run)
                label == IF "run" \in DOMAIN regd_
                         THEN RunLabel(tr.current_run) ELSE <<>>
                loc2 == [loc1 EXCEPT !.current_run = tr.current_run,
                                     !.run_label = label]
                suffix == Suffix(regd_, label, lab.label)
            IN  IF tr.exc # "none" THEN [loc1 EXCEPT !.exc = tr.exc]
                ELSE IF \/ Contains(s.series_description, <<"_", "Scout">>)
                        \/ (seqtype = <<"anat">> /\ lab.label = <<"scout">>)
                THEN [loc2 EXCEPT !.skipped = Append(@, s.series_id)]
                ELSE [loc2 EXCEPT !.info =
                          AppendTo(@, create_key(seqtype, suffix), s.series_id)]

\* One pass of "for s in seqinfo" from the locals loc: the locals after it,
\* exc naming the exception that ended it, if any.
ProcessSeries(s, loc) ==
    IF SkipDerived(s)
    THEN [loc EXCEPT !.skipped = Append(@, s.series_id)]
    ELSE PlaceSeries(s, [loc EXCEPT !.image_data_type = s.image_type],
                     loc.image_data_type, TuneProtocolName(s.protocol_name),
                     parse_dbic_protocol_name(TuneProtocolName(s.protocol_name)))

\* infotodict before its call and outside SpecParse and SpecFix
LoopIdle ==
    /\ pc = "idle" /\ idx = 0
    /\ current_run = 0 /\ run_label = <<>> /\ image_data_type = <<>>
    /\ info = EmptyDict /\ skipped = <<>> /\ skipped_unknown = <<>>

\* fixup_subjectid and infotoids before any call and outside their
\* specifications
IdentIdle ==
    /\ subjectid = <<>> /\ subject = <<>> /\ fixups = 0
    /\ ids = <<>> /\ info1 = Pending

----------------------------------------------------------------------------
(* Identity: fixup_subjectid and infotoids.                                *)

\* str.lower on the words of the universe
Lower(s) ==
    [i \in 1..Len(s) |->
        CASE s[i] = "SID"  -> "sid"
          [] s[i] = "Abra" -> "abra"
          [] OTHER         -> s[i]]

\* "%06d" % n
Fmt06(n) ==
    LET d == Decimal(n)
    IN  IF Len(d) >= 6 THEN d ELSE [i \in 1..(6 - Len(d)) |-> "0"] \o d

\* re.match("sid0*(\d+)$", subjectid): 'sid', then digits up to the end
MatchesSid(subjectid_) ==
    /\ subjectid_ # <<>>
    /\ Head(subjectid_) = "sid"
    /\ IsDigit(Tail(subjectid_))

fixup_subjectid(subjectid_) ==
    LET lowered == Lower(subjectid_)
    IN  IF ~MatchesSid(lowered)
        THEN Strip(lowered, {"-", "_"})
        ELSE <<"sid">> \o Fmt06(ToInt(Tail(lowered)))

\* re.split('-|_', s, 1): s cut at its first '-' or '_', if it has one
SplitFirstDashOrUnderscore(s) ==
    LET hits == { i \in 1..Len(s) : s[i] \in {"-", "_"} }
    IN  IF hits = {} THEN <<s>>
        ELSE LET p == CHOOSE i \in hits : \A j \in hits : i <= j
             IN  <<SubSeq(s, 1, p-1), SubSeq(s, p+1, Len(s))>>

\* '/'.join(re.split('-|_', split[0], 1) + split[1:]) of
\* split = study_description.split('^', 1)
Locator(study_description) ==
    LET p     == Find(study_description, "^")
        split == IF p = 0 THEN <<study_description>>
                 ELSE <<SubSeq(study_description, 1, p-1),
                        SubSeq(study_description, p+1, Len(study_description))>>
    IN  Join(SplitFirstDashOrUnderscore(split[1]) \o Tail(split), "/")

\* the parse of every non-derived series' protocol name, in batch order
ParsedNonDerived(seqinfos) ==
    LET nonderived == SelectSeq(seqinfos, LAMBDA s : ~s.is_derived)
    IN  [i \in 1..Len(nonderived) |->
            parse_dbic_protocol_name(nonderived[i].protocol_name)]

\* filter(bool, ses_markers): the sessions the parser stored, None and ''
\* dropped
SesMarkers(parsed) ==
    SelectSeq([i \in 1..Len(parsed) |-> Field(parsed[i].val, "session")],
              LAMBDA m : m # <<>>)

\* a variant of PickSession without the test for mixed markers
PickSessionUnchecked(ses_markers) ==
    IF ses_markers = <<>> THEN [exc |-> "none", session |-> <<>>]
    ELSE IF Range(ses_markers) \ {<<"+">>, <<"=">>} # {}
    THEN IF Len(ses_markers) # 1
         THEN [exc |-> "AssertionError", session |-> <<>>]
         ELSE [exc |-> "none", session |-> ses_markers[1]]
    ELSE [exc |-> "none", session |-> <<"0", "0", "1">>]

\* The session infotoids picks from ses_markers: [exc, session], session
\* <<>> standing for None.
PickSession(ses_markers) ==
    IF ses_markers = <<>> THEN [exc |-> "none", session |-> <<>>]
    ELSE
    LET nonsign_vals == Range(ses_markers) \ {<<"+">>, <<"=">>}
    IN  IF nonsign_vals # {}
        THEN IF Range(ses_markers) \cap {<<"+">>, <<"=">>} # {}
             THEN [exc |-> "NotImplementedError", session |-> <<>>]
             ELSE IF Len(ses_markers) # 1
             THEN [exc |-> "AssertionError", session |-> <<>>]
             ELSE [exc |-> "none", session |-> ses_markers[1]]
        ELSE [exc |-> "none", session |-> <<"0", "0", "1">>]

\* The session of the batch from the parses of its non-derived series:
\* [exc, session]; a parse that raised ends infotoids with its exception.
SessionOf(parsed) ==
    LET failed == { i \in 1..Len(parsed) : parsed[i].exc # "none" }
    IN  IF failed # {}
        THEN [exc |-> parsed[CHOOSE i \in failed : \A j \in failed : i <= j].exc,
              session |-> <<>>]
        ELSE PickSession(SesMarkers(parsed))

\* what infotoids returns once the session is picked: the legacy study has
\* its session imposed
IdentityRecord(seqinfos, picked) ==
    IF picked.exc # "none" THEN Raised(picked.exc)
    ELSE Returned(
        [locator |-> Locator(get_unique(seqinfos, "study_description")),
         session |-> IF md5sum(get_unique(seqinfos, "study_description"))
                          = LegacyHash
                     THEN <<"siemens", "1">> ELSE picked.session,
         subject |-> fixup_subjectid(get_unique(seqinfos, "patient_id"))])

infotoids(seqinfos) ==
    IF ~IsUnique(seqinfos, "study_description") THEN Raised("AssertionError")
    ELSE IF ~IsUnique(seqinfos, "patient_id") THEN Raised("AssertionError")
    ELSE IdentityRecord(seqinfos, SessionOf(ParsedNonDerived(seqinfos)))

----------------------------------------------------------------------------
(* The parser specification: Init draws a protocol name, the actions parse *)
(* it, its 'bids_'-tagged form and a reordering of its tokens.             *)

\* the tokens protocol names are built from
Tokens ==
    { <<>>, <<"bids">>, <<"scout">>, <<"func">>, <<"func", "-", "pace">>,
      <<"x">>, <<"bids", "-", "x">>, <<"run", "+">>, <<"run", "-", "2">>,
      <<"run">>, <<"task", "-", "b", "@", "-", "o">> }

RECURSIVE TokenLists(_)
TokenLists(n) ==
    IF n = 0 THEN {<<>>}
    ELSE LET shorter == TokenLists(n-1)
         IN  shorter \cup
             { Append(l, t) : l \in { x \in shorter : Len(x) = n-1 }, t \in Tokens }

ProtocolNames == { Join(l, "_") : l \in TokenLists(MaxTokens) \ {<<>>} }

\* the sequence l reordered by the permutation p of its indices
Reorder(l, p) == [i \in 1..Len(l) |-> l[p[i]]]

IndexPerms(n) ==
    { p \in [1..n -> 1..n] : \A i, j \in 1..n : p[i] = p[j] => i = j }

\* how many leading tokens the parser consumes up to and including the one
\* it reads the seqtype from: 2 when a 'bids' prefix is dropped, else 1
SeqtypeIndex(split) == Len(split) - Len(DropBids(ScoutFixup(split))) + 1

ParseInit ==
    /\ protocol_name \in ProtocolNames
    /\ regd = Pending
    /\ protocol_name2 = <<>>
    /\ regd2 = Pending
    /\ relation = "none"
    /\ seqinfo = <<>> /\ given = <<>> /\ call = NoCall
    /\ exc = "none" /\ returned = <<>>
    /\ LoopIdle
    /\ IdentIdle

Parse ==
    /\ regd = Pending
    /\ regd' = parse_dbic_protocol_name(protocol_name)
    /\ UNCHANGED <<ident_vars, protocol_name, protocol_name2, regd2, relation, fix_vars, loop_vars>>

\* the same body with an explicit 'bids' tag in front
ParseTagged ==
    /\ regd # Pending /\ regd2 = Pending
    /\ protocol_name2' = <<"bids", "_">> \o protocol_name
    /\ regd2' = parse_dbic_protocol_name(protocol_name2')
    /\ relation' = "tagged"
    /\ UNCHANGED <<ident_vars, protocol_name, regd, fix_vars, loop_vars>>

\* the same name with the tokens after the seqtype token in another order
\* (the '__' suffix, which is no token list, stays where it is)
ParseReordered ==
    /\ regd # Pending /\ regd2 = Pending
    /\ LET body   == DropSuffix(protocol_name)
           suffix == SubSeq(protocol_name, Len(body) + 1, Len(protocol_name))
           split  == Split(body, "_")
           h      == SeqtypeIndex(split)
       IN  /\ h <= Len(split)
           /\ \E p \in IndexPerms(Len(split) - h) :
                 /\ protocol_name2' =
                        Join(SubSeq(split, 1, h)
                             \o Reorder(SubSeq(split, h+1, Len(split)), p), "_")
                        \o suffix
                 /\ protocol_name2' # protocol_name
    /\ regd2' = parse_dbic_protocol_name(protocol_name2')
    /\ relation' = "reordered"
    /\ UNCHANGED <<ident_vars, protocol_name, regd, fix_vars, loop_vars>>

ParseNext == Parse \/ ParseTagged \/ ParseReordered

SpecParse == ParseInit /\ [][ParseNext]_vars

----------------------------------------------------------------------------
(* The fixup-engine specification: Init draws a batch of one study, the    *)
(* actions call fix_canceled_runs and fix_dbic_protocol on it with the     *)
(* tables of the module and of its tests.                                  *)

FixSeriesIds == { <<"9", "-">>, <<"1", "8", "-">>, <<"0", "3", "-">> }

\* (protocol_name, series_description) of the series the engine is tried on
FixNames ==
    { << <<"func", "_", "run", "+">>, <<"func", "_", "run", "+">> >>,
      << <<"scout", "_", "run", "-", "life", "2">>, <<"nochangeeither">> >>,
      << <<"anat", "_", "T", "2", "w">>, <<"scout", "_", "run", "+">> >>,
      << <<"nochangeplease">>, <<"scout", "_", "run", "-", "life", "2">> >> }

FixStudies == { LegacyStudy, MyStudy, OtherStudy }

FixAccessions == { "A000035", "accession1" }

SeqInfo(id, names, derived, image_type, study, accession) ==
    [series_id |-> id, protocol_name |-> names[1],
     series_description |-> names[2], is_derived |-> derived,
     image_type |-> image_type, patient_id |-> <<"sid", "3", "0">>,
     study_description |-> study, accession_number |-> accession]

\* every list of 1..n elements of S
RECURSIVE ListsUpTo(_, _)
ListsUpTo(S, n) ==
    IF n = 0 THEN {<<>>}
    ELSE LET shorter == ListsUpTo(S, n-1)
         IN  shorter \cup
             { Append(l, x) : l \in { y \in shorter : Len(y) = n-1 }, x \in S }

FixBatches ==
    { [i \in 1..Len(l) |->
          SeqInfo(l[i][1], l[i][2], FALSE, "M", study, accession)] :
      l \in ListsUpTo(FixSeriesIds \X FixNames, MaxFixSeries) \ {<<>>},
      study \in FixStudies, accession \in FixAccessions }

AccessionTable(name) ==
    IF name = "fix_accession2run" THEN fix_accession2run ELSE fake_accession2run

SubsDict(name) ==
    IF name = "protocols2fix" THEN protocols2fix ELSE test_subsdict

FixInit ==
    /\ seqinfo \in FixBatches
    /\ given = seqinfo
    /\ call = NoCall
    /\ exc = "none"
    /\ returned = <<>>
    /\ protocol_name = <<>> /\ regd = Pending
    /\ protocol_name2 = <<>> /\ regd2 = Pending /\ relation = "none"
    /\ LoopIdle
    /\ IdentIdle

\* seqinfo_ = fix_canceled_runs(seqinfo, accession2run)
FixCanceledRuns ==
    /\ call = NoCall
    /\ \E table \in {"fix_accession2run", "fake_accession2run"} :
         LET out == fix_canceled_runs(seqinfo, AccessionTable(table))
         IN  /\ call' = [op |-> "fix_canceled_runs", accession2run |-> table]
             /\ seqinfo' = out.seqinfo
             /\ exc' = out.exc
             /\ returned' = IF out.exc = "none" THEN out.seqinfo ELSE <<>>
    /\ UNCHANGED <<ident_vars, given, parse_vars, loop_vars>>

\* seqinfos_ = fix_dbic_protocol(seqinfos, keys=keys, subsdict=subsdict)
FixDbicProtocol ==
    /\ call = NoCall
    /\ \E keys \in {<<"protocol_name">>, keys2replace},
          table \in {"protocols2fix", "test_subsdict"} :
         LET out == fix_dbic_protocol(seqinfo, keys, SubsDict(table))
         IN  /\ call' = [op |-> "fix_dbic_protocol", keys |-> keys,
                         subsdict |-> table]
             /\ seqinfo' = out.seqinfo
             /\ exc' = out.exc
             /\ returned' = IF out.exc = "none" THEN out.seqinfo ELSE <<>>
    /\ UNCHANGED <<ident_vars, given, parse_vars, loop_vars>>

FixNext == FixCanceledRuns \/ FixDbicProtocol

SpecFix == FixInit /\ [][FixNext]_vars

----------------------------------------------------------------------------
(* The classification specification: Init draws a batch of one study, and  *)
(* infotodict runs over it: its start (the ad-hoc fixup), one step per     *)
(* series, its return.                                                     *)

\* (protocol_name, image_type[2], is_derived) of the series of a batch
ClassifySeries ==
    { << <<"func", "_", "run", "+">>, <<"FMRI">>, FALSE >>,
      << <<"func", "_", "run", "=">>, <<"FMRI">>, FALSE >>,
      << <<"func", "_", "run", "-", "3">>, <<"FMRI">>, FALSE >>,
      << <<"fmap", "_", "run", "+">>, <<"M">>, FALSE >>,
      << <<"fmap", "_", "run", "+">>, <<"P">>, FALSE >>,
      << <<"localizer">>, <<"M">>, FALSE >>,
      << <<"localizer">>, <<"MIP", "_", "SAG">>, FALSE >>,
      << <<"anat", "-", "scout">>, <<"M">>, FALSE >>,
      << <<"func", "_", "run", "+">>, <<"FMRI">>, TRUE >> }

\* (study_description, accession_number) of a batch
StudyConfigs ==
    { <<OtherStudy, "A003">>, <<LegacyStudy, "A000005">>, <<RunEqStudy, "A003">> }

\* the series id at position i of a batch: "<i>-"
SeriesIdAt(i) == <<DigitSeq[i + 1], "-">>

Batches ==
    { [i \in 1..Len(l) |->
          SeqInfo(SeriesIdAt(i), <<l[i][1], l[i][1]>>, l[i][3], l[i][2],
                  cfg[1], cfg[2])] :
      l \in ListsUpTo(ClassifySeries, MaxSeries) \ {<<>>}, cfg \in StudyConfigs }

Init ==
    /\ seqinfo \in Batches
    /\ given = seqinfo
    /\ call = NoCall
    /\ exc = "none"
    /\ returned = <<>>
    /\ protocol_name = <<>> /\ regd = Pending
    /\ protocol_name2 = <<>> /\ regd2 = Pending /\ relation = "none"
    /\ LoopIdle
    /\ IdentIdle

\* The "ad hoc hack" that opens infotodict: [exc, seqinfo], the list after it.
AdHocFixup(seqinfo_) ==
    IF ~IsUnique(seqinfo_, "study_description")
    THEN [exc |-> "AssertionError", seqinfo |-> seqinfo_]
    ELSE IF md5sum(get_unique(seqinfo_, "study_description"))
              \in DOMAIN protocols2fix
    THEN fix_dbic_protocol(seqinfo_, keys2replace, protocols2fix)
    ELSE [exc |-> "none", seqinfo |-> seqinfo_]

\* infotodict(seqinfo) up to its loop: the uniqueness check and the fixup
InfoToDictStart ==
    /\ pc = "idle"
    /\ call' = [op |-> "infotodict"]
    /\ \E fixed \in {AdHocFixup(seqinfo)} :
           /\ seqinfo' = fixed.seqinfo
           /\ exc' = fixed.exc
           /\ pc' = IF fixed.exc = "none" THEN "loop" ELSE "raised"
    /\ idx' = 1
    /\ UNCHANGED <<ident_vars, given, returned, parse_vars, current_run, run_label,
                   image_data_type, info, skipped, skipped_unknown>>

\* one pass of the loop "for s in seqinfo"
InfoToDictSeries ==
    /\ pc = "loop" /\ idx <= Len(seqinfo)
    /\ \E out \in {ProcessSeries(seqinfo[idx], Locals)} :
           IF out.exc # "none"
           THEN /\ pc' = "raised" /\ exc' = out.exc
                /\ UNCHANGED <<idx, current_run, run_label, image_data_type,
                               info, skipped, skipped_unknown>>
           ELSE /\ idx' = idx + 1
                /\ current_run' = out.current_run
                /\ run_label' = out.run_label
                /\ image_data_type' = out.image_data_type
                /\ info' = out.info
                /\ skipped' = out.skipped
                /\ skipped_unknown' = out.skipped_unknown
                /\ UNCHANGED <<pc, exc>>
    /\ UNCHANGED <<ident_vars, seqinfo, given, call, returned, parse_vars>>

\* "return info" once the loop is through
InfoToDictReturn ==
    /\ pc = "loop" /\ idx > Len(seqinfo)
    /\ pc' = "done"
    /\ UNCHANGED <<ident_vars, seqinfo, given, call, exc, returned, parse_vars, idx,
                   current_run, run_label, image_data_type, info, skipped,
                   skipped_unknown>>

Next == InfoToDictStart \/ InfoToDictSeries \/ InfoToDictReturn

Spec == Init /\ [][Next]_vars

\* The locals of infotodict as lines 195-199 set them.
InitialLocals ==
    [current_run |-> 0, run_label |-> <<>>, image_data_type |-> <<>>,
     info |-> EmptyDict, skipped |-> <<>>, skipped_unknown |-> <<>>,
     exc |-> "none"]

\* "for s in seqinfo" from position i with the locals loc, up to its end or
\* the first exception
RECURSIVE LoopFrom(_, _, _)
LoopFrom(seqinfo_, i, loc) ==
    IF i > Len(seqinfo_) \/ loc.exc # "none" THEN loc
    ELSE LoopFrom(seqinfo_, i + 1, ProcessSeries(seqinfo_[i], loc))

\* what infotodict returns when its loop ends with the locals loc
InfoOf(loc) == IF loc.exc # "none" THEN Raised(loc.exc) ELSE Returned(loc.info)

\* the loop over the list the opening fixup left
LoopOver(fixed) ==
    IF fixed.exc # "none" THEN Raised(fixed.exc)
    ELSE InfoOf(LoopFrom(fixed.seqinfo, 1, InitialLocals))

\* infotodict(seqinfo) as one call: the outcome InfoToDictStart,
\* InfoToDictSeries and InfoToDictReturn arrive at step by step
infotodict(seqinfo_) == LoopOver(AdHocFixup(seqinfo_))

----------------------------------------------------------------------------
(* The pre-fixup specification: the caller hands infotodict a batch of a   *)
(* study of the substitution table, as it is or after passing it through   *)
(* fix_dbic_protocol.                                                      *)

\* the protocol names of the series of a batch
RefixSeries ==
    { <<"func", "_", "run", "=">>,
      <<"anat", "-", "T", "2", "w">>,
      <<"func", "_", "T", "2", "w", "-", "x">>,
      <<"func", "_", "scout", "_", "run", "+", "_", "run", "+">>,
      <<"MPRAGE">> }

RefixStudies == { LegacyStudy, RunEqStudy }

RefixBatches ==
    { [i \in 1..Len(l) |->
          SeqInfo(SeriesIdAt(i), <<l[i], l[i]>>, FALSE, <<"FMRI">>,
                  study, "A000005")] :
      l \in ListsUpTo(RefixSeries, MaxRefixSeries) \ {<<>>},
      study \in RefixStudies }

RefixInit ==
    /\ seqinfo \in RefixBatches
    /\ given = seqinfo
    /\ call = NoCall
    /\ exc = "none"
    /\ returned = <<>>
    /\ protocol_name = <<>> /\ regd = Pending
    /\ protocol_name2 = <<>> /\ regd2 = Pending /\ relation = "none"
    /\ LoopIdle
    /\ IdentIdle

\* seqinfo = fix_dbic_protocol(seqinfo), called by the caller before
\* infotodict
PreFixup ==
    /\ pc = "idle" /\ call = NoCall
    /\ \E out \in {fix_dbic_protocol(seqinfo, keys2replace, protocols2fix)} :
           /\ call' = [op |-> "fix_dbic_protocol", keys |-> keys2replace,
                       subsdict |-> "protocols2fix"]
           /\ seqinfo' = out.seqinfo
           /\ exc' = out.exc
           /\ returned' = IF out.exc = "none" THEN out.seqinfo ELSE <<>>
    /\ UNCHANGED <<ident_vars, given, parse_vars, loop_vars>>

RefixNext ==
    \/ PreFixup
    \/ InfoToDictStart
    \/ InfoToDictSeries
    \/ InfoToDictReturn

SpecRefix == RefixInit /\ [][RefixNext]_vars

----------------------------------------------------------------------------
(* The run-token specification: infotodict over batches of functional      *)
(* series of a study without fixups, drawn over every form of run token.   *)

\* the protocol names of the series of a batch
RunSeries ==
    { <<"func", "_", "run", "+">>,
      <<"func", "_", "run", "=">>,
      <<"func", "_", "run", "-", "0">>,
      <<"func", "_", "run", "-", "1">>,
      <<"func", "_", "run", "-", "3">>,
      <<"func", "_", "run", "-", "abc">>,
      <<"func", "_", "run", "-">>,
      <<"func", "_", "run">>,
      <<"func">> }

RunBatches ==
    { [i \in 1..Len(l) |->
          SeqInfo(SeriesIdAt(i), <<l[i], l[i]>>, FALSE, <<"FMRI">>,
                  OtherStudy, "A003")] :
      l \in ListsUpTo(RunSeries, MaxRunSeries) \ {<<>>} }

RunInit ==
    /\ seqinfo \in RunBatches
    /\ given = seqinfo
    /\ call = NoCall
    /\ exc = "none"
    /\ returned = <<>>
    /\ protocol_name = <<>> /\ regd = Pending
    /\ protocol_name2 = <<>> /\ regd2 = Pending /\ relation = "none"
    /\ LoopIdle
    /\ IdentIdle

SpecRun == RunInit /\ [][Next]_vars

----------------------------------------------------------------------------
(* The fieldmap specification: infotodict over batches of fieldmap series  *)
(* without run token, drawn over the values of image_type[2].              *)

\* (protocol_name, image_type[2]) of the series of a batch
FmapSeries ==
    { << <<"fmap">>, <<"M">> >>,
      << <<"fmap">>, <<"P">> >>,
      << <<"fmap">>, <<"FMRI">> >>,
      << <<"fmap">>, <<"DIFFUSION">> >>,
      << <<"fmap">>, <<"MIP", "_", "SAG">> >>,
      << <<"fmap", "-", "epi">>, <<"FMRI">> >>,
      << <<"func">>, <<"FMRI">> >> }

FmapBatches ==
    { [i \in 1..Len(l) |->
          SeqInfo(SeriesIdAt(i), <<l[i][1], l[i][1]>>, FALSE, l[i][2],
                  OtherStudy, "A003")] :
      l \in ListsUpTo(FmapSeries, MaxFmapSeries) \ {<<>>} }

FmapInit ==
    /\ seqinfo \in FmapBatches
    /\ given = seqinfo
    /\ call = NoCall
    /\ exc = "none"
    /\ returned = <<>>
    /\ protocol_name = <<>> /\ regd = Pending
    /\ protocol_name2 = <<>> /\ regd2 = Pending /\ relation = "none"
    /\ LoopIdle
    /\ IdentIdle

SpecFmap == FmapInit /\ [][Next]_vars

----------------------------------------------------------------------------
(* The subject-id specification: Init draws a subject id, the actions      *)
(* normalize it and normalize the result once more.                        *)

\* the symbols subject ids are built from
IdSymbols == {"sid", "SID", "abra", "Abra", "0", "3", "-", "_"}

SubjectIds == ListsUpTo(IdSymbols, MaxIdLen)

SubjectInit ==
    /\ subjectid \in SubjectIds
    /\ subject = <<>> /\ fixups = 0 /\ ids = <<>> /\ info1 = Pending
    /\ seqinfo = <<>> /\ given = <<>> /\ call = NoCall
    /\ exc = "none" /\ returned = <<>>
    /\ protocol_name = <<>> /\ regd = Pending
    /\ protocol_name2 = <<>> /\ regd2 = Pending /\ relation = "none"
    /\ LoopIdle

\* subject = fixup_subjectid(subjectid)
FixupSubjectId ==
    /\ fixups = 0
    /\ subject' = fixup_subjectid(subjectid)
    /\ fixups' = 1
    /\ UNCHANGED <<subjectid, ids, info1, parse_vars, fix_vars, loop_vars>>

\* subject = fixup_subjectid(subject): the result normalized once more
FixupSubjectIdAgain ==
    /\ fixups = 1
    /\ subjectid' = subject
    /\ subject' = fixup_subjectid(subject)
    /\ fixups' = 2
    /\ UNCHANGED <<ids, info1, parse_vars, fix_vars, loop_vars>>

SubjectNext == FixupSubjectId \/ FixupSubjectIdAgain

SpecSubject == SubjectInit /\ [][SubjectNext]_vars

----------------------------------------------------------------------------
(* The identity specification: Init draws a batch, uniform or with its     *)
(* last series deviating in one field; infotoids is called on the caller's *)
(* list before infotodict runs over that list and after it has returned.   *)

\* (protocol_name, is_derived) of the series of a batch
IdentSeries ==
    { << <<"func", "_", "ses", "+">>, FALSE >>,
      << <<"func", "_", "ses", "=">>, FALSE >>,
      << <<"func", "_", "ses", "-", "1">>, FALSE >>,
      << <<"func", "_", "ses", "-", "2">>, FALSE >>,
      << <<"func", "_", "ses", "-", "2">>, TRUE >>,
      << <<"func">>, FALSE >>,
      << <<"localizer">>, FALSE >> }

IdentStudies == { OtherStudy, RunEqStudy, LegacyStudy }

\* the field in which the last series of a batch differs from the others
Deviations == { "none", "accession_number", "patient_id", "study_description" }

Deviate(batch, field) ==
    IF field = "none" \/ Len(batch) < 2 THEN batch
    ELSE [batch EXCEPT ![Len(batch)][field] =
              CASE field = "accession_number"  -> "A003"
                [] field = "patient_id"        -> <<"sid", "3", "1">>
                [] field = "study_description" -> MyStudy]

IdentBatches ==
    { Deviate([i \in 1..Len(l) |->
                   SeqInfo(SeriesIdAt(i), <<l[i][1], l[i][1]>>, l[i][2],
                           <<"FMRI">>, study, "A000005")], field) :
      l \in ListsUpTo(IdentSeries, MaxIdentSeries) \ {<<>>},
      study \in IdentStudies, field \in Deviations }

IdentInit ==
    /\ seqinfo \in IdentBatches
    /\ given = seqinfo
    /\ call = NoCall
    /\ exc = "none"
    /\ returned = <<>>
    /\ protocol_name = <<>> /\ regd = Pending
    /\ protocol_name2 = <<>> /\ regd2 = Pending /\ relation = "none"
    /\ LoopIdle
    /\ IdentIdle

\* infotoids(seqinfo, outdir), once before infotodict is called and once
\* after it has returned
InfoToIds ==
    /\ pc \in {"idle", "done"}
    /\ \A i \in 1..Len(ids) : ids[i].at # pc
    /\ ids' = Append(ids, [at |-> pc, seqinfos |-> seqinfo,
                            out |-> infotoids(seqinfo)])
    /\ UNCHANGED <<subjectid, subject, fixups, info1, parse_vars, fix_vars,
                   loop_vars>>

\* a second infotodict(seqinfo) on the same list, up to its loop, once the
\* first call has returned
InfoToDictAgain ==
    /\ pc = "done" /\ info1 = Pending
    /\ info1' = Returned(info)
    /\ call' = [op |-> "infotodict"]
    /\ \E fixed \in {AdHocFixup(seqinfo)} :
           /\ seqinfo' = fixed.seqinfo
           /\ exc' = fixed.exc
           /\ pc' = IF fixed.exc = "none" THEN "loop" ELSE "raised"
    /\ idx' = 1
    /\ current_run' = 0 /\ run_label' = <<>> /\ image_data_type' = <<>>
    /\ info' = EmptyDict /\ skipped' = <<>> /\ skipped_unknown' = <<>>
    /\ UNCHANGED <<given, returned, parse_vars, subjectid, subject, fixups, ids>>

IdentNext ==
    \/ InfoToIds
    \/ InfoToDictStart
    \/ InfoToDictSeries
    \/ InfoToDictReturn
    \/ InfoToDictAgain

SpecIdent == IdentInit /\ [][IdentNext]_vars

----------------------------------------------------------------------------
(* Claims about the parser, checked under SpecParse.                       *)

\* the tokens of a name's body and the (key, value) reading of one token
BodyTokens(name) == Split(DropSuffix(name), "_")

KeyOf(tok) ==
    LET kv == split2(tok)
    IN  IF kv.none /\ kv.key # <<>> /\ kv.key[Len(kv.key)] \in {"+", "="}
        THEN SubSeq(kv.key, 1, Len(kv.key) - 1)
        ELSE kv.key

\* the tokens of toks after position h whose key is in keys, in order
RECURSIVE TokensWithKey(_, _, _)
TokensWithKey(toks, h, keys) ==
    IF Len(toks) <= h THEN <<>>
    ELSE LET rest == TokensWithKey(SubSeq(toks, 1, Len(toks) - 1), h, keys)
             last == toks[Len(toks)]
         IN  IF KeyOf(last) \in keys THEN Append(rest, last) ELSE rest

AllKeys(toks) == { KeyOf(toks[i]) : i \in 1..Len(toks) }

\* C2 (as claimed): for a parsable body B (the parser returns a non-empty
\* mapping for it) whose first token is not 'bids', parsing 'bids_' + B
\* returns the same mapping as parsing B.
C2_BidsTagNeverChangesResult ==
    ( /\ relation = "tagged"
      /\ BodyTokens(protocol_name)[1] # <<"bids">>
      /\ regd.exc = "none" /\ regd.val # EmptyDict )
    => regd2 = regd

KeepsRelativeOrder(name, name2) ==
    LET a == BodyTokens(name)
        b == BodyTokens(name2)
        h == SeqtypeIndex(a)
    IN  /\ TokensWithKey(a, h, AllKeys(a) \ KnownKeys)
             = TokensWithKey(b, h, AllKeys(a) \ KnownKeys)
        /\ \A k \in KnownKeys :
              TokensWithKey(a, h, {k}) = TokensWithKey(b, h, {k})

C4_ParserIsTotal == regd.exc \in {"pending", "none"}

\* the seqtype as the claim describes it: the part before the first hyphen
\* of the first token left once the 'scout' alias and the 'bids' tag are handled
ClaimedSeqtype(name) ==
    LET toks    == BodyTokens(name)
        aliased == IF toks[1] = <<"scout">>
                   THEN <<<<"anat", "-", "scout">>>> \o Tail(toks)
                   ELSE toks
        rest    == IF split2(aliased[1]).key = <<"bids">>
                   THEN Tail(aliased) ELSE aliased
    IN  IF rest = <<>> THEN <<>> ELSE split2(rest[1]).key

\* C5: a returned result is empty exactly when the seqtype is not one of
\* anat, func, dwi, behav, fmap, and a non-empty result carries that seqtype.
C5_EmptyIffUnknownSeqtype ==
    LET five == {<<"anat">>, <<"func">>, <<"dwi">>, <<"behav">>, <<"fmap">>}
        st   == ClaimedSeqtype(protocol_name)
    IN  regd.exc = "none" =>
          /\ (regd.val = EmptyDict) <=> (st \notin five)
          /\ regd.val # EmptyDict =>
                "seqtype" \in DOMAIN regd.val /\ regd.val["seqtype"] = st

\* a tagged name with a run token gave a non-empty result
C5_Witness ==
    /\ regd.exc = "none" /\ regd.val # EmptyDict
    /\ regd.val["seqtype"] = <<"func">>
    /\ BodyTokens(protocol_name)[1] = <<"bids">>
    /\ "run" \in DOMAIN regd.val

----------------------------------------------------------------------------
(* Claims about the fixup engine, checked under SpecFix.                   *)

StartsWith(s, prefix) ==
    Len(s) >= Len(prefix) /\ SubSeq(s, 1, Len(prefix)) = prefix

\* whether the series id of r matches a pattern the table lists for the
\* accession number of r
ListedAsCanceled(r, table) ==
    /\ r.accession_number \in DOMAIN table
    /\ \E k \in 1..Len(table[r.accession_number]) :
          StartsWith(r.series_id, Tail(table[r.accession_number][k]))

\* r with 'cancelme_' in front of its protocol name and series description
WithCancelme(r) ==
    [series_id |-> r.series_id,
     protocol_name |-> <<"cancelme", "_">> \o r.protocol_name,
     series_description |-> <<"cancelme", "_">> \o r.series_description,
     is_derived |-> r.is_derived, image_type |-> r.image_type,
     patient_id |-> r.patient_id, study_description |-> r.study_description,
     accession_number |-> r.accession_number]

\* C8: fix_canceled_runs returns the batch with exactly the series whose id
\* matches a pattern listed for the accession number prefixed by 'cancelme_'
\* in protocol name and series description, and every other series and
\* field as given.
C8_CanceledRunsFrame ==
    (call.op = "fix_canceled_runs" /\ exc = "none") =>
        /\ Len(returned) = Len(given)
        /\ \A i \in 1..Len(given) :
              returned[i] =
                IF ListedAsCanceled(given[i], AccessionTable(call.accession2run))
                THEN WithCancelme(given[i])
                ELSE given[i]

\* a batch with one series marked through the second listed pattern and
\* one series left alone
C8_Witness ==
    /\ call.op = "fix_canceled_runs" /\ exc = "none"
    /\ \E i, j \in 1..Len(given) :
          /\ ListedAsCanceled(given[i], AccessionTable(call.accession2run))
          /\ returned[i] # given[i]
          /\ ~ListedAsCanceled(given[j], AccessionTable(call.accession2run))
          /\ returned[j] = given[j]

\* the (pattern, replacement) pairs folded over a value in table order: the
\* last pair applied to the fold of the pairs before it
RECURSIVE FoldPairs(_, _)
FoldPairs(pairs, value) ==
    IF pairs = <<>> THEN value
    ELSE LET last == pairs[Len(pairs)]
         IN  re_sub(last[1], last[2],
                    FoldPairs(SubSeq(pairs, 1, Len(pairs) - 1), value))

\* whether pattern pat matches somewhere in s
Occurs(pat, s) == \E k \in 1..Len(s) : MatchesAt(pat, SubSeq(s, k, Len(s)))

InKeys(field, keys) == \E k \in 1..Len(keys) : keys[k] = field

\* what C9 says of a returned batch, for the batch `before` the substitutions
FixupsAreFoldOver(before) ==
    LET pairs == SubsDict(call.subsdict)[md5sum(given[1].study_description)]
    IN  /\ Len(returned) = Len(given)
        /\ \A i \in 1..Len(given) :
              /\ \A field \in DOMAIN given[i] :
                    returned[i][field] =
                      IF InKeys(field, call.keys)
                      THEN FoldPairs(pairs, before[i][field])
                      ELSE before[i][field]
              /\ (\A k \in 1..Len(pairs), n \in 1..Len(call.keys) :
                     ~Occurs(pairs[k][1], before[i][call.keys[n]]))
                  => returned[i] = before[i]

\* C9 (as claimed): fix_dbic_protocol returns the given batch with each
\* named field replaced by the fold of the table's pairs over it, and every
\* other field and every series no pattern matches equal to the input.
C9_FixupsOnlyNamedFields ==
    (call.op = "fix_dbic_protocol" /\ exc = "none") => FixupsAreFoldOver(given)

\* the given batch after canceled-run marking with the module's own table
GivenMarked ==
    [i \in 1..Len(given) |->
        IF ListedAsCanceled(given[i], fix_accession2run)
        THEN WithCancelme(given[i]) ELSE given[i]]

\* C9 (amended): fix_dbic_protocol first marks the canceled runs; it
\* returns the marked batch with each named field replaced by the fold of
\* the table's pairs, in table order, over the marked field, and every other
\* field and every series no pattern matches equal to the marked batch.
C9_FixupsFoldOverMarked ==
    (call.op = "fix_dbic_protocol" /\ exc = "none") =>
        FixupsAreFoldOver(GivenMarked)

\* two pairs of the table changed the same named field, the later one
\* matching what the earlier ones left, and the field not named is as given
C9_Witness ==
    /\ call.op = "fix_dbic_protocol" /\ exc = "none"
    /\ LET pairs == SubsDict(call.subsdict)[md5sum(given[1].study_description)]
       IN  \E i \in 1..Len(given), a, b \in 1..Len(pairs) :
             /\ a < b
             /\ Occurs(pairs[a][1], given[i].protocol_name)
             /\ Occurs(pairs[b][1],
                       FoldPairs(SubSeq(pairs, 1, b-1), given[i].protocol_name))
             /\ returned[i].protocol_name # given[i].protocol_name
             /\ returned[i].series_description = given[i].series_description

\* C10: fix_dbic_protocol raises, returning no batch, whenever the hash of
\* the study description is not a key of the substitution table.
C10_UnknownStudyAborts ==
    ( /\ call.op = "fix_dbic_protocol"
      /\ md5sum(given[1].study_description)
            \notin DOMAIN SubsDict(call.subsdict) )
    => (exc = "ValueError" /\ returned = <<>>)

\* the call was refused for a study the other table knows
C10_Witness ==
    /\ call.op = "fix_dbic_protocol"
    /\ call.subsdict = "test_subsdict"
    /\ given[1].study_description = LegacyStudy
    /\ exc = "ValueError"

\* C11 (as claimed): after a call of fix_canceled_runs or fix_dbic_protocol
\* the list the caller passed in holds, at every position, the record the
\* caller put there.
C11_InputBatchIntact ==
    call.op \in {"fix_canceled_runs", "fix_dbic_protocol"} => seqinfo = given

\* C27 (as claimed): when fix_dbic_protocol raises because the hash of the
\* study description is no key of the substitution table, the list the
\* caller passed in holds the records the caller put there: no series has
\* gained a 'cancelme_' prefix, whatever the accession number.
C27_AbortLeavesBatchIntact ==
    ( /\ call.op = "fix_dbic_protocol"
      /\ exc = "ValueError"
      /\ md5sum(given[1].study_description)
            \notin DOMAIN SubsDict(call.subsdict) )
    => /\ seqinfo = given
       /\ \A i \in 1..Len(seqinfo) :
             ~StartsWith(seqinfo[i].protocol_name, <<"cancelme", "_">>)

----------------------------------------------------------------------------
(* Claims about infotodict, checked under Spec.                            *)

\* what the parser makes of the protocol name of series r
ParsedOf(r) == parse_dbic_protocol_name(TuneProtocolName(r.protocol_name))

\* the run token of series r: <<>> when it has none
RunTokenOf(r) ==
    IF ParsedOf(r).exc = "none" /\ "run" \in DOMAIN ParsedOf(r).val
    THEN ParsedOf(r).val["run"] ELSE <<>>

\* the series ids filed under some key of info
InfoIds == UNION { Range(info[k]) : k \in DOMAIN info }

\* a step of the loop that takes series r and goes on
TakesSeries(r) ==
    /\ pc = "loop" /\ idx <= Len(seqinfo) /\ seqinfo[idx] = r
    /\ pc' = "loop" /\ idx' = idx + 1

\* the labels of the scenario of the run counter
ScenarioLabels ==
    << <<"run", "-", "0", "1">>, <<"run", "-", "0", "2">>,
       <<"run", "-", "0", "2">>, <<"run", "-", "0", "3">> >>

\* the batch the loop runs over carries the run tokens [+, +, =, 3] on four
\* series that are neither derived nor phase images
IsScenario ==
    /\ Len(seqinfo) = 4
    /\ [i \in 1..4 |-> RunTokenOf(seqinfo[i])]
         = << <<"+">>, <<"+">>, <<"=">>, <<"3">> >>
    /\ \A i \in 1..4 : ~seqinfo[i].is_derived /\ seqinfo[i].image_type # <<"P">>

\* C1: a loop step over a series that is not derived, is no phase image and
\* carries the run token '+' leaves the run one greater than it found it and
\* labels the series with it; and the tokens [+, +, =, 3] are labelled
\* run-01, run-02, run-02, run-03 in that order.
C1_PlusIncrementsRun ==
    /\ [][\A r \in Range(seqinfo) :
            ( /\ TakesSeries(r)
              /\ ~r.is_derived /\ r.image_type # <<"P">>
              /\ RunTokenOf(r) = <<"+">> )
            => /\ current_run' = current_run + 1
               /\ run_label' = <<"run", "-">> \o
                     (IF current_run' < 10 THEN <<"0", DigitSeq[current_run' + 1]>>
                      ELSE Decimal(current_run'))]_vars
    /\ [](( /\ pc \in {"loop", "done"} /\ IsScenario /\ idx >= 2 )
            => run_label = ScenarioLabels[idx - 1])

\* the scenario ran to its end
C1_Witness ==
    /\ pc = "done" /\ IsScenario
    /\ current_run = 3
    /\ run_label = <<"run", "-", "0", "3">>

\* C6 (as claimed): a non-derived series the parser cannot classify is
\* recorded as unrecognized, is in no id list of the mapping, and the loop
\* goes on to the next series, whatever the image type of the series.
C6_UnrecognizedIsRecorded ==
    \A j \in 1..Len(seqinfo) :
        ( /\ pc \in {"loop", "done", "raised"}
          /\ call.op = "infotodict" /\ exc \notin {"AssertionError", "ValueError"}
          /\ ~seqinfo[j].is_derived
          /\ ParsedOf(seqinfo[j]) = Returned(EmptyDict)
          /\ idx >= j )
        => /\ ~(pc = "raised" /\ idx = j)
           /\ idx > j =>
                 /\ seqinfo[j].series_id \in Range(skipped_unknown)
                 /\ seqinfo[j].series_id \notin InfoIds

\* C7: a derived series is recorded as skipped and its id is in no id list
\* of the mapping.
C7_DerivedNeverPlaced ==
    \A j \in 1..Len(seqinfo) :
        (pc \in {"loop", "done"} /\ seqinfo[j].is_derived) =>
            /\ seqinfo[j].series_id \notin InfoIds
            /\ idx > j => seqinfo[j].series_id \in Range(skipped)

\* a derived series was passed over and a later series was placed
C7_Witness ==
    /\ pc = "done"
    /\ \E j \in 1..Len(seqinfo) :
          /\ seqinfo[j].is_derived
          /\ seqinfo[j].series_id \in Range(skipped)
          /\ \E k \in (j+1)..Len(seqinfo) : seqinfo[k].series_id \in InfoIds

\* the loop is about to take a series that is not derived
AtSeries == pc = "loop" /\ idx <= Len(seqinfo) /\ ~seqinfo[idx].is_derived

\* the loop took the series and goes on to the next
GoesOn == pc' = "loop" /\ idx' = idx + 1

\* "run-NN" for run number n
TwoDigitLabel(n) ==
    <<"run", "-">> \o
    (IF n < 10 THEN <<"0", DigitSeq[n + 1]>> ELSE Decimal(n))

\* C15: a loop step over a phase series with run token '+', the series
\* processed before it being no magnitude series, ends the pass with
\* RuntimeError and places nothing, unless the study is the legacy study:
\* then the run is incremented by one and the loop goes on.
C15_PhaseWithoutMagnitude ==
    [][( /\ AtSeries
         /\ seqinfo[idx].image_type = <<"P">>
         /\ RunTokenOf(seqinfo[idx]) = <<"+">>
         /\ image_data_type # <<"M">> )
       => IF md5sum(seqinfo[idx].study_description) = LegacyHash
          THEN /\ GoesOn
               /\ current_run' = current_run + 1
               /\ run_label' = TwoDigitLabel(current_run + 1)
          ELSE /\ pc' = "raised" /\ exc' = "RuntimeError"
               /\ UNCHANGED <<idx, info, current_run, run_label>>]_vars

\* in the legacy study a phase series with '+' came second, after a series
\* that was no magnitude series, and was placed under run 1
C15_Witness ==
    /\ pc \in {"loop", "done"} /\ idx = 3
    /\ md5sum(seqinfo[2].study_description) = LegacyHash
    /\ ~seqinfo[1].is_derived /\ seqinfo[1].image_type = <<"FMRI">>
    /\ ~seqinfo[2].is_derived /\ seqinfo[2].image_type = <<"P">>
    /\ RunTokenOf(seqinfo[2]) = <<"+">>
    /\ current_run = 1
    /\ seqinfo[2].series_id \in InfoIds

\* C19: a loop step over a phase series with run token '+', the series
\* processed before it being a magnitude series, leaves the run as it was
\* and labels the phase series with it, which is the label of the series
\* before when that one carried a label.
C19_FieldmapPairSharesRun ==
    [][( /\ AtSeries
         /\ seqinfo[idx].image_type = <<"P">>
         /\ RunTokenOf(seqinfo[idx]) = <<"+">>
         /\ image_data_type = <<"M">> )
       => /\ GoesOn
          /\ current_run' = current_run
          /\ run_label' = TwoDigitLabel(current_run)
          /\ run_label # <<>> => run_label' = run_label]_vars

\* a magnitude series with '+' opened run 1 and the phase series with '+'
\* right after it was placed under run 1 as well
C19_Witness ==
    /\ pc \in {"loop", "done"} /\ idx = 3
    /\ \A j \in 1..2 : ~seqinfo[j].is_derived /\ RunTokenOf(seqinfo[j]) = <<"+">>
    /\ seqinfo[1].image_type = <<"M">> /\ seqinfo[2].image_type = <<"P">>
    /\ current_run = 1 /\ run_label = <<"run", "-", "0", "1">>
    /\ {seqinfo[1].series_id, seqinfo[2].series_id} \subseteq InfoIds

\* the positions of list at which id stands
PositionsIn(list, id) == { i \in 1..Len(list) : list[i] = id }

\* the (key, position) pairs of info at which id stands
PlacesInInfo(id) ==
    UNION { { <<k, i>> : i \in PositionsIn(info[k], id) } : k \in DOMAIN info }

\* how often id occurs across skipped, skipped_unknown and the lists of info
Occurrences(id) ==
    Cardinality(PositionsIn(skipped, id))
    + Cardinality(PositionsIn(skipped_unknown, id))
    + Cardinality(PlacesInInfo(id))

\* the ids of the batch, and the position in the batch of one of them
BatchIds == { seqinfo[j].series_id : j \in 1..Len(seqinfo) }

BatchPosition(id) == CHOOSE j \in 1..Len(seqinfo) : seqinfo[j].series_id = id

\* C25: when infotodict has returned on a batch of distinct series ids, every
\* id of the batch occurs exactly once across skipped, skipped_unknown and
\* the id lists of info, these hold nothing but ids of the batch, and the ids
\* of each list of info stand in batch order.
C25_OutcomePartitionsBatch ==
    ( /\ pc = "done"
      /\ \A i, j \in 1..Len(seqinfo) :
            seqinfo[i].series_id = seqinfo[j].series_id => i = j )
    => /\ \A id \in BatchIds : Occurrences(id) = 1
       /\ Range(skipped) \cup Range(skipped_unknown) \cup InfoIds
             \subseteq BatchIds
       /\ \A k \in DOMAIN info : \A a, b \in 1..Len(info[k]) :
             a < b => BatchPosition(info[k][a]) < BatchPosition(info[k][b])

\* infotodict returned with a scout series skipped, a series unrecognized
\* and two series filed under one key
C25_Witness ==
    /\ pc = "done"
    /\ skipped_unknown # <<>>
    /\ \E j \in 1..Len(seqinfo) :
          /\ ~seqinfo[j].is_derived
          /\ seqinfo[j].protocol_name = <<"anat", "-", "scout">>
          /\ seqinfo[j].series_id \in Range(skipped)
    /\ \E k \in DOMAIN info : Len(info[k]) = 2
    /\ \A id \in BatchIds : Occurrences(id) = 1

----------------------------------------------------------------------------
(* Claims about the run tokens, checked under SpecRun.                     *)

\* whether the parser stored a run for series r
HasRun(r) == ParsedOf(r).exc = "none" /\ "run" \in DOMAIN ParsedOf(r).val

\* C17: a loop step over a series whose stored run is not '+', not '=' and
\* no digit string ends the pass: nothing is placed and no run label is made.
C17_UnknownRunTokenAborts ==
    [][( /\ AtSeries
         /\ HasRun(seqinfo[idx])
         /\ ParsedOf(seqinfo[idx]).val["run"] \notin {<<"+">>, <<"=">>}
         /\ ~IsDigit(ParsedOf(seqinfo[idx]).val["run"]) )
       => /\ pc' = "raised"
          /\ UNCHANGED <<idx, info, current_run, run_label>>]_vars

\* the pass ended with ValueError on a bare 'run' token after a series that
\* was labelled run-01
C17_Witness ==
    /\ pc = "raised" /\ exc = "ValueError" /\ idx = 2
    /\ HasRun(seqinfo[2]) /\ ParsedOf(seqinfo[2]).val["run"] = <<"None">>
    /\ run_label = <<"run", "-", "0", "1">>

\* whether a series before the one the loop is at carried a run token
RunSetBefore ==
    \E j \in 1..(idx - 1) : ~seqinfo[j].is_derived /\ HasRun(seqinfo[j])

\* C18 (as claimed): a loop step over a series with run token '=' labels it
\* with the run held before the step when an earlier series of the pass set
\* a run (0 included), and with run 1 when none did.
C18_EqualsKeepsRun ==
    [][( /\ AtSeries /\ RunTokenOf(seqinfo[idx]) = <<"=">> )
       => /\ GoesOn
          /\ current_run' = IF RunSetBefore THEN current_run ELSE 1
          /\ run_label' = TwoDigitLabel(current_run')]_vars

\* the key a functional series is filed under when its suffix is the run
\* label of run n followed by the default label
FuncKeyOfRun(n) ==
    create_key(<<"func">>, TwoDigitLabel(n) \o <<"_", "bold">>)

\* the key a functional series is filed under when its suffix carries no
\* run label
FuncKeyNoRun == create_key(<<"func">>, <<"bold">>)

\* whether the id of the series at position j is filed under key
FiledUnder(j, key) ==
    key \in DOMAIN info /\ seqinfo[j].series_id \in Range(info[key])

\* the loop has taken the series at position j and gone on
Past(j) == pc \in {"loop", "done"} /\ idx > j

\* C22: a series with a digit-string run token is labelled with that integer
\* and the pass goes on, also when the integer is lower than the run held so
\* far; right after it the run held is that integer, and a '+' on the next
\* series is labelled with that integer plus one.
C22_ExplicitRunAccepted ==
    \A j \in 1..Len(seqinfo) :
        IsDigit(RunTokenOf(seqinfo[j])) =>
            LET n == ToInt(RunTokenOf(seqinfo[j]))
            IN  /\ ~(pc = "raised" /\ idx = j)
                /\ Past(j) => FiledUnder(j, FuncKeyOfRun(n))
                /\ (Past(j) /\ idx = j + 1) =>
                      current_run = n /\ run_label = TwoDigitLabel(n)
                /\ ( /\ j < Len(seqinfo)
                     /\ RunTokenOf(seqinfo[j + 1]) = <<"+">> )
                   => /\ ~(pc = "raised" /\ idx = j + 1)
                      /\ Past(j + 1) => FiledUnder(j + 1, FuncKeyOfRun(n + 1))

\* run 3 was followed by an explicit run 1 and a '+': the three series are
\* filed under run-03, run-01 and run-02
C22_Witness ==
    /\ pc = "done" /\ Len(seqinfo) = 3
    /\ [i \in 1..3 |-> RunTokenOf(seqinfo[i])] = << <<"3">>, <<"1">>, <<"+">> >>
    /\ FiledUnder(1, FuncKeyOfRun(3))
    /\ FiledUnder(2, FuncKeyOfRun(1))
    /\ FiledUnder(3, FuncKeyOfRun(2))
    /\ current_run = 2

\* the positions before j of the series that carry a run token
WithRunBefore(j) == { k \in 1..(j - 1) : HasRun(seqinfo[k]) }

\* the run held when the loop reaches position j, read off the key the last
\* series with a run token before j is filed under: 0 when there is none
RunHeldBefore(j) ==
    IF WithRunBefore(j) = {} THEN 0
    ELSE LET k == CHOOSE k \in WithRunBefore(j) :
                      \A m \in WithRunBefore(j) : m <= k
         IN  CHOOSE n \in 0..(3 + Len(seqinfo)) : FiledUnder(k, FuncKeyOfRun(n))

----------------------------------------------------------------------------
(* Claims about the default labels, checked under SpecFmap.                *)

\* whether series r is parsed as a fieldmap without seqtype label
FmapWithoutLabel(r) ==
    /\ ParsedOf(r).exc = "none"
    /\ Field(ParsedOf(r).val, "seqtype") = <<"fmap">>
    /\ Field(ParsedOf(r).val, "seqtype_label") = <<>>

\* the keys of info whose suffix ends with the label 'magnitude' or
\* 'phasediff'
FmapLabelKeys ==
    { k \in DOMAIN info : k[1][Len(k[1])] \in {"magnitude", "phasediff"} }

\* C24 (as claimed): the pass never ends on a non-derived series parsed as a
\* fieldmap without seqtype label, whatever its image type, and once the loop
\* is past it the series is filed under a suffix that ends with 'magnitude'
\* or 'phasediff'.
C24_FmapAlwaysLabelled ==
    \A j \in 1..Len(seqinfo) :
        (~seqinfo[j].is_derived /\ FmapWithoutLabel(seqinfo[j])) =>
            /\ ~(pc = "raised" /\ idx = j)
            /\ Past(j) => \E k \in FmapLabelKeys : FiledUnder(j, k)

----------------------------------------------------------------------------
(* Claims about fixup_subjectid, checked under SpecSubject.                *)

\* C13 (as claimed): fixup_subjectid applied to its own result returns that
\* result unchanged.
C13_FixupIdempotent == fixups = 2 => subject = subjectid

----------------------------------------------------------------------------
(* Claims about infotoids and its use next to infotodict, checked under    *)
(* SpecIdent.                                                              *)

\* the batch an infotoids call was handed: the caller's list as it stood
ArgOf(entry) == IF entry.at = "idle" THEN given ELSE entry.seqinfos

Sigils == { <<"+">>, <<"=">> }

\* the session values the parser stores for the non-derived series
SessionTokens(batch) ==
    { Field(parse_dbic_protocol_name(batch[i].protocol_name).val, "session") :
          i \in { k \in 1..Len(batch) : ~batch[k].is_derived } } \ {<<>>}

\* whether the batch is of one accession, one patient and one study
SingleStudy(batch) ==
    \A attr \in {"accession_number", "patient_id", "study_description"} :
        IsUnique(batch, attr)

\* C12 (as claimed): infotoids returns the same outcome for the caller's
\* batch whether it is called before infotodict or after infotodict has
\* returned, and a second infotodict call on the batch returns the mapping
\* the first one returned.
C12_IdentityIndependentOfClassify ==
    /\ \A i, j \in 1..Len(ids) : ids[i].out = ids[j].out
    /\ info1 # Pending =>
          /\ pc # "raised"
          /\ pc = "done" => info = info1.val

\* C14 (as claimed): on a batch whose series differ in accession number,
\* patient id or study description, infotodict never returns and every
\* infotoids call raises.
C14_MixedBatchAborts ==
    ~SingleStudy(given) =>
        /\ pc # "done"
        /\ \A i \in 1..Len(ids) : ids[i].out.exc # "none"

\* whether the stored session values hold a sigil and an explicit value
MixedSessions(batch) ==
    /\ SessionTokens(batch) \cap Sigils # {}
    /\ SessionTokens(batch) \ Sigils # {}

\* C16: every infotoids call on a batch whose stored session values hold both
\* a sigil and an explicit value raises; it raises NotImplementedError when
\* the batch is of one study and one patient.
C16_MixedSessionsAbort ==
    \A i \in 1..Len(ids) :
        MixedSessions(ArgOf(ids[i])) =>
            /\ ids[i].out.exc # "none"
            /\ ( /\ IsUnique(ArgOf(ids[i]), "study_description")
                 /\ IsUnique(ArgOf(ids[i]), "patient_id") )
               => ids[i].out.exc = "NotImplementedError"

\* infotoids was called on a batch of one study with a sigil and an explicit
\* session value, and raised NotImplementedError
C16_Witness ==
    \E i \in 1..Len(ids) :
        /\ MixedSessions(ArgOf(ids[i]))
        /\ SingleStudy(ArgOf(ids[i]))
        /\ ids[i].out.exc = "NotImplementedError"

\* C20 (as claimed): every infotoids call on a batch of one study (not the
\* legacy study, whose session is imposed) and one patient, whose stored
\* session values are one distinct explicit value and no sigil, returns that
\* value as the session, however many series carry it.
C20_SingleExplicitSessionReturned ==
    \A i \in 1..Len(ids) :
        LET batch == ArgOf(ids[i])
        IN  ( /\ IsUnique(batch, "study_description")
              /\ IsUnique(batch, "patient_id")
              /\ md5sum(batch[1].study_description) # LegacyHash
              /\ SessionTokens(batch) \cap Sigils = {}
              /\ Cardinality(SessionTokens(batch)) = 1 )
            => /\ ids[i].out.exc = "none"
               /\ {ids[i].out.val.session} = SessionTokens(batch)

\* the explicit session values stored for the non-derived series of a batch,
\* in series order
ExplicitSessions(batch) ==
    SelectSeq([i \in 1..Len(batch) |->
                  IF batch[i].is_derived THEN <<>>
                  ELSE Field(parse_dbic_protocol_name(batch[i].protocol_name).val,
                             "session")],
              LAMBDA m : m # <<>> /\ m \notin Sigils)

\* C21 (as claimed): every infotoids call on a batch of one study and one
\* patient, whose stored session values are more than one distinct explicit
\* value and no sigil, returns; outside the legacy study, whose session is
\* imposed, the session it returns is the first of those values in series
\* order.
C21_MultipleSessionsFirstWins ==
    \A i \in 1..Len(ids) :
        LET batch == ArgOf(ids[i])
        IN  ( /\ IsUnique(batch, "study_description")
              /\ IsUnique(batch, "patient_id")
              /\ SessionTokens(batch) \cap Sigils = {}
              /\ Cardinality(SessionTokens(batch)) > 1 )
            => /\ ids[i].out.exc = "none"
               /\ md5sum(batch[1].study_description) # LegacyHash
                    => ids[i].out.val.session = ExplicitSessions(batch)[1]

----------------------------------------------------------------------------
(* Claims about infotodict on a batch fixed up beforehand, checked under   *)
(* SpecRefix.                                                              *)

\* whether the caller passed the batch through fix_dbic_protocol, which
\* returned, before infotodict was called
PreFixed == returned # <<>>

\* C26 (as claimed): for a study of the substitution table, infotodict on a
\* batch the caller has passed through fix_dbic_protocol returns the mapping
\* that infotodict returns on the batch as the caller first had it.
C26_PreFixedClassifiesTheSame ==
    (PreFixed /\ pc \in {"done", "raised"}) =>
        /\ pc = "done"
        /\ infotodict(given) = Returned(info)

====
